---- MODULE Spec2Model ----
(***************************************************************************)
(* Model of the reconciliation and orchestration core of network_bot:      *)
(* the capture/merge path (ContactMergeService, SessionService,            *)
(* ContactService, ContactRepository), the OSINT enrichment fan-out, the    *)
(* enrichment retry jobs of the scheduler, the stored enrichment results,   *)
(* the reminder dispatch task, the semaphore and token bucket of            *)
(* OSINTService, the bot's rate limiter with its cleanup, and of the        *)
(* webapp the API client, ContactViewPage and CatalogPage.                  *)
(***************************************************************************)
EXTENDS Integers, Sequences, FiniteSets, TLC

\* ------------------------------------------------------------- bounds
MaxCalls == 3
MaxInFlight == 2
MaxTime == 450
MaxResults == 3
MaxRows == 2
MaxEnrichContacts == 2
MaxMinutes == 8
MaxTriggers == 2
MaxExecuting == 2
MaxDays == 45
MaxCacheRuns == 2
MaxBeats == 1
MaxReminders == 1
MaxDispatchers == 2
MaxServices == 2
MaxWaiting == 1
MaxSeconds == 1
MaxStarted == 12
MaxQuota == 2
MaxTicks == 2
MaxIdleDays == 1
MaxPurchases == 2
MaxNavigations == 1
MaxRetries == 3

\* ---------------------------------------------------- program constants
MERGE_TIMEOUT_SECONDS == 300
MAX_RETRIES == 3
OSINT_ENRICHMENT_DELAY_DAYS == 30
RATE_LIMIT == 5
BUCKET_RATE == 10
RATE_LIMIT_WINDOW_SECONDS == 60
INACTIVE_SECONDS == 86400
MAX_REQUESTS_PER_MINUTE == 20
MAX_VOICE_REQUESTS_PER_MINUTE == 5

\* Granularity of the modelled clock: half the merge window. A handler's steps
\* fall within one tick, so the clock moves between handler runs.
Tick == MERGE_TIMEOUT_SECONDS \div 2

\* ------------------------------------------------------------- values
None == "None"
Actors == {"u1", "u2"}
NoId == 0
NoTime == 0

Fields == {"name", "phone", "telegram_username", "email", "agreements"}
IdentityFields == {"name", "phone"}

\* A fragment is the dict handed to the merge service: the keys it carries
\* are its DOMAIN; a key may be present with an empty value (None, or the
\* empty list for agreements).
Fragments ==
  << [kind |-> "contact", data |-> [name |-> "Ann", phone |-> "+1555"]],
     [kind |-> "voice",
      data |-> [name |-> None, phone |-> "+1555", telegram_username |-> None,
                email |-> None, agreements |-> <<>>]],
     [kind |-> "voice",
      data |-> [name |-> "Jane", phone |-> "+1555", telegram_username |-> None,
                email |-> None, agreements |-> <<"call">>]],
     [kind |-> "voice",
      data |-> [name |-> "Bob", phone |-> None, telegram_username |-> "@bob",
                email |-> "bob@x.io", agreements |-> <<"demo">>]] >>

FragIds == 1..Len(Fragments)
FragData(f) == Fragments[f].data
FragKind(f) == Fragments[f].kind

\* The fragments each actor sends: every one for u1, the forwarded contact for u2.
Arrivals == {<<"u1", f>> : f \in FragIds} \cup {<<"u2", 1>>}

IsEmpty(field, v) == IF field = "agreements" THEN v = <<>> ELSE v = None
Range(s) == {s[i] : i \in 1..Len(s)}

VARIABLES now, contacts, sessions, calls, nStarted, last, identitySeen,
          query, found, runs,
          clock, jobs, executing, nTriggered, lastJob, failures,
          day, osint, cacheRuns, lastCache,
          beat, reminders, dispatchers, channel, lastRem,
          services, sec, started,
          ltime, limits, request_history, voice_history, live, lastAllow,
          page, catalog, net, api

captureVars == <<now, sessions, calls, nStarted, last, identitySeen>>
findVars == <<query, found>>
enrichVars == <<runs>>
jobVars == <<clock, jobs, executing, nTriggered, lastJob, failures>>
cacheVars == <<day, osint, cacheRuns, lastCache>>
reminderVars == <<beat, reminders, dispatchers, channel, lastRem>>
throttleVars == <<services, sec, started>>
limiterVars == <<ltime, limits, request_history, voice_history, live, lastAllow>>
webVars == <<page, catalog, net, api>>
backgroundVars == <<jobVars, cacheVars, reminderVars, throttleVars, limiterVars, webVars>>
notCapture == <<findVars, enrichVars, backgroundVars>>
vars == <<contacts, captureVars, findVars, enrichVars, backgroundVars>>

\* ------------------------------------------------------------- tables
\* Contact row (models/contact.py): NULL columns are None, a NULL array is <<>>.
NewContact(user, data, t) ==
  [user_id |-> user,
   name |-> IF "name" \in DOMAIN data THEN data["name"] ELSE None,
   phone |-> IF "phone" \in DOMAIN data THEN data["phone"] ELSE None,
   telegram_username |->
     IF "telegram_username" \in DOMAIN data THEN data["telegram_username"] ELSE None,
   email |-> IF "email" \in DOMAIN data THEN data["email"] ELSE None,
   agreements |-> IF "agreements" \in DOMAIN data THEN data["agreements"] ELSE <<>>,
   created_at |-> t,
   updated_at |-> t]

NoContact == NewContact(None, [name |-> None], NoTime)

\* UserSession row: user_id is unique, so the table is a function of the actor.
NoSession == [exists |-> FALSE, last_contact_id |-> NoId, last_contact_time |-> NoTime]

NoEvent ==
  [op |-> "none", actor |-> None, frag |-> 0, id |-> NoId, before |-> NoContact,
   n |-> 0, t |-> NoTime, active_id |-> NoId, active_time |-> NoTime,
   merged |-> FALSE]

\* The last step that wrote a table or returned: the call's fragment and
\* decision time, the row it touched as it was before, the table's length before.
Event(op, c, id, before) ==
  [op |-> op, actor |-> c.actor, frag |-> c.frag, id |-> id, before |-> before,
   n |-> Len(contacts), t |-> c.t, active_id |-> c.active_id,
   active_time |-> c.active_time, merged |-> c.merged]

\* A lookup handed to the repository, and a provider branch of an enrichment.
NoQuery == [op |-> "none", user |-> None, name |-> None, phone |-> None,
            telegram_username |-> None]
Branches == {"profile", "content"}
Pending == [state |-> "pending", n |-> 0]
NoRun == [pc |-> "idle", branch |-> [b \in Branches |-> Pending],
          status |-> None, results |-> <<>>]
EnrichContacts == 1..MaxEnrichContacts

InitCapture ==
  /\ now = Tick
  /\ sessions = [a \in Actors |-> NoSession]
  /\ calls = {}
  /\ nStarted = 0
  /\ last = NoEvent
  /\ identitySeen = <<>>

InitFind == query = NoQuery /\ found = {}

InitEnrich == runs = [c \in EnrichContacts |-> NoRun]

\* The scheduler's job store is empty and no job function is executing;
\* failures is what the jobs have written to the database about enrichments
\* they gave up.
NoJobEvent == [op |-> "none", contact |-> None, retry_count |-> 0, delay |-> 0,
               scheduled |-> 0]
InitJobs ==
  /\ clock = 0
  /\ jobs = {}
  /\ executing = {}
  /\ nTriggered = 0
  /\ lastJob = NoJobEvent
  /\ failures = {}

\* No enrichment result is stored and no enrichment is running.
NoCacheEvent == [op |-> "none", contact |-> None, before |-> {},
                 fetched |-> [b \in Branches |-> None], t |-> 0]
InitCache ==
  /\ day = 0
  /\ osint = {}
  /\ cacheRuns = {}
  /\ lastCache = NoCacheEvent

\* The reminders table is empty and no dispatch task is running. Of a row the
\* model keeps the time it is due and its status.
NoReminder == [trigger_at |-> NoTime, status |-> None]
NoRemEvent == [op |-> "none", id |-> NoId, before |-> NoReminder, arg |-> NoTime,
               due |-> {}, n |-> 0, again |-> FALSE]
InitReminders ==
  /\ beat = 0
  /\ reminders = <<>>
  /\ dispatchers = {}
  /\ channel = {}
  /\ lastRem = NoRemEvent

\* No OSINTService has been constructed; started counts the enrichments begun
\* since second 0.
InitThrottle ==
  /\ services = <<>>
  /\ sec = 0
  /\ started = 0

\* The rate limiter as constructed, RateLimiter(max_requests, time_window,
\* voice_max_requests, voice_time_window): both histories empty. live is the
\* record of the admissions whose timestamp is inside the window: user, class,
\* time, and the number of the admission among the user's in that class.
\* Configs are the limits the limiter is checked with, the voice limit
\* below the general one; DefaultLimits are those of the constants module.
LimiterUsers == {"u1", "u2"}
Classes == {"general", "voice"}
LimiterKeys == LimiterUsers \X Classes
Configs ==
  {c \in [general : 1..MaxQuota, voice : 1..MaxQuota] : c.voice < c.general}
NoAllowEvent == [op |-> "none"]
DefaultLimits ==
  [general |-> MAX_REQUESTS_PER_MINUTE, voice |-> MAX_VOICE_REQUESTS_PER_MINUTE]
NoHistory ==
  /\ ltime = 0
  /\ request_history = <<>>
  /\ voice_history = <<>>
  /\ live = {}
  /\ lastAllow = NoAllowEvent
InitLimiter == NoHistory /\ limits = DefaultLimits

\* The webapp: the useState defaults of ContactViewPage and CatalogPage and
\* the requests of a page; before a page is mounted there is no such state.
NoShare == [id |-> NoId, visibility |-> None, already_purchased |-> FALSE,
            is_owner |-> FALSE, price_amount |-> None]
RequestKinds == {"load", "purchase", "reload", "catalog"}
NoApiEvent == [op |-> "none"]
NoRequests ==
  [pending |-> [k \in RequestKinds |-> 0],
   purchases |-> 0, navigations |-> 0, retries |-> 0]
PageDefaults(isTelegram) ==
  [share |-> NoShare, loading |-> TRUE, purchasing |-> FALSE, error |-> None,
   isTelegram |-> isTelegram]
CatalogDefaults == [shares |-> <<>>, loading |-> TRUE, error |-> None]
NotMounted == [mounted |-> FALSE]
InitWeb ==
  /\ page = NotMounted
  /\ catalog = NotMounted
  /\ net = NotMounted
  /\ api = NoApiEvent

InitBackground ==
  InitJobs /\ InitCache /\ InitReminders /\ InitThrottle /\ InitLimiter /\ InitWeb

Init ==
  /\ contacts = <<>>
  /\ InitCapture
  /\ InitFind
  /\ InitEnrich
  /\ InitBackground

\* ------------------------------------------------- contact service
\* A variant of UpdateFields that keeps a value the row already has.
UpdateFieldsKeepExisting(rec, data, t) ==
  [k \in DOMAIN rec |->
     IF k \in DOMAIN data /\ IsEmpty(k, rec[k]) THEN data[k]
     ELSE IF k = "updated_at" THEN t
     ELSE rec[k]]

\* ContactService.update_contact / ContactRepository.update: setattr for every
\* key the data carries, whatever its value; onupdate refreshes updated_at.
UpdateFields(rec, data, t) ==
  [k \in DOMAIN rec |->
     IF k \in DOMAIN data THEN data[k]
     ELSE IF k = "updated_at" THEN t
     ELSE rec[k]]

\* ContactService.find_by_identifiers as merge_or_create_contact calls it: the
\* most recent contact of the user matching phone OR handle OR email, or NoId.
MatchesIdentifier(rec, data) ==
  \E k \in {"phone", "telegram_username", "email"} \cap DOMAIN data :
     data[k] # None /\ rec[k] = data[k]

FindByIdentifiers(tbl, user, data) ==
  LET hits == {i \in 1..Len(tbl) : tbl[i].user_id = user /\ MatchesIdentifier(tbl[i], data)}
  IN IF hits = {} THEN NoId ELSE CHOOSE i \in hits : \A j \in hits : j <= i

\* ---------------------------------------------------- merge service
\* A variant of WithinMergeWindow that admits the boundary.
WithinMergeWindowInclusive(t, active_time) == t - active_time <= MERGE_TIMEOUT_SECONDS

\* merge_or_create_contact: the merge test on the session's last contact.
WithinMergeWindow(t, active_time) == t - active_time < MERGE_TIMEOUT_SECONDS

ShouldMerge(active_id, active_time, t) ==
  /\ active_id # NoId
  /\ active_time # NoTime
  /\ WithinMergeWindow(t, active_time)

\* A variant of OnExisting that applies the fragment to the match.
OnExistingAutoApply(tbl, id, data, t) ==
  [tbl EXCEPT ![id] = UpdateFields(@, data, t)]

\* merge_or_create_contact on a duplicate: `return existing, False`; the
\* contacts table is left as it is.
OnExisting(tbl, id, data, t) == tbl

\* A variant of SessionAfter whose stamp stays at the first fragment of a record.
SessionAfterFixedWindow(sess, id, t) ==
  [exists |-> TRUE, last_contact_id |-> id,
   last_contact_time |-> IF sess.last_contact_id = id THEN sess.last_contact_time ELSE t]

\* handle_voice: update_session(last_contact_id=contact.id, last_contact_time=now)
SessionAfter(sess, id, t) ==
  [exists |-> TRUE, last_contact_id |-> id, last_contact_time |-> t]

\* The identity-source values (forwarded contact) a record has received.
NoIdentity == [name |-> None, phone |-> None]
IdentityAfter(old, f) ==
  IF FragKind(f) = "contact"
  THEN [name |-> FragData(f)["name"], phone |-> FragData(f)["phone"]]
  ELSE old

\* A handler invocation: its locals and its place in the code.
NewCall(slot, a, f) ==
  [slot |-> slot, actor |-> a, frag |-> f, pc |-> "add_session",
   active_id |-> NoId, active_time |-> NoTime, t |-> NoTime,
   contact |-> NoId, merged |-> FALSE]

FreeSlot == CHOOSE s \in 1..MaxInFlight :
              /\ \A c \in calls : c.slot # s
              /\ \A r \in 1..(s - 1) : \E c \in calls : c.slot = r

Goto(c, c2) == calls' = (calls \ {c}) \cup {c2}

\* The decision merge_or_create_contact takes on the session values it is
\* given; it runs without an await after the session has been read.
Decide(c, sess) ==
  LET c1 == [c EXCEPT !.active_id = sess.last_contact_id,
                      !.active_time = sess.last_contact_time,
                      !.t = now]
  IN IF ShouldMerge(c1.active_id, c1.active_time, now)
     THEN [c1 EXCEPT !.pc = "update"]
     ELSE [c1 EXCEPT !.pc = "find"]

\* A fragment of actor a reaches its handler, which selects the actor's
\* session row (SessionService.get_or_create_session).
Accept(a, f) ==
  /\ nStarted < MaxCalls
  /\ Cardinality(calls) < MaxInFlight
  /\ nStarted' = nStarted + 1
  /\ LET c == NewCall(FreeSlot, a, f)
     IN calls' = calls \cup {IF sessions[a].exists THEN Decide(c, sessions[a]) ELSE c}
  /\ UNCHANGED <<now, contacts, sessions, last, identitySeen>>
  /\ UNCHANGED notCapture

\* SessionService.get_or_create_session: the insert of a missing row; the
\* unique user_id makes a second insert fail, and the handler with it.
AddSession(c) ==
  /\ c.pc = "add_session"
  /\ IF sessions[c.actor].exists
     THEN /\ calls' = calls \ {c}
          /\ last' = Event("integrity_error", c, NoId, NoContact)
          /\ UNCHANGED sessions
     ELSE /\ sessions' = [sessions EXCEPT ![c.actor].exists = TRUE]
          /\ Goto(c, Decide(c, sessions'[c.actor]))
          /\ UNCHANGED last
  /\ UNCHANGED <<now, contacts, nStarted, identitySeen>>
  /\ UNCHANGED notCapture

\* merge_or_create_contact: update_contact(active_contact_id, contact_data).
UpdateContact(c) ==
  /\ c.pc = "update"
  /\ contacts' = [contacts EXCEPT ![c.active_id] = UpdateFields(@, FragData(c.frag), now)]
  /\ identitySeen' = [identitySeen EXCEPT ![c.active_id] = IdentityAfter(@, c.frag)]
  /\ LET c2 == [c EXCEPT !.pc = "save", !.contact = c.active_id, !.merged = TRUE]
     IN /\ Goto(c, c2)
        /\ last' = Event("merge", c2, c.active_id, contacts[c.active_id])
  /\ UNCHANGED <<now, sessions, nStarted>>
  /\ UNCHANGED notCapture

\* merge_or_create_contact: find_by_identifiers, then `if existing`.
FindExisting(c) ==
  /\ c.pc = "find"
  /\ LET existing == FindByIdentifiers(contacts, c.actor, FragData(c.frag))
     IN IF existing # NoId
        THEN /\ contacts' = OnExisting(contacts, existing, FragData(c.frag), now)
             /\ Goto(c, [c EXCEPT !.pc = "save", !.contact = existing])
             /\ last' = Event("duplicate", c, existing, contacts[existing])
        ELSE /\ Goto(c, [c EXCEPT !.pc = "create"])
             /\ UNCHANGED <<contacts, last>>
  /\ UNCHANGED <<now, sessions, nStarted, identitySeen>>
  /\ UNCHANGED notCapture

\* merge_or_create_contact: create_contact(user_id, contact_data).
CreateContact(c) ==
  /\ c.pc = "create"
  /\ contacts' = Append(contacts, NewContact(c.actor, FragData(c.frag), now))
  /\ identitySeen' = Append(identitySeen, IdentityAfter(NoIdentity, c.frag))
  /\ LET c2 == [c EXCEPT !.pc = "save", !.contact = Len(contacts) + 1]
     IN /\ Goto(c, c2)
        /\ last' = Event("create", c2, c2.contact, NoContact)
  /\ UNCHANGED <<now, sessions, nStarted>>
  /\ UNCHANGED notCapture

\* A variant of UpdateSession in which the handler first awaits the enrichment
\* of the contact.
UpdateSessionAfterEnrichment(c) ==
  /\ c.pc = "save"
  /\ \A r \in EnrichContacts : runs[r].pc # "gather"
  /\ sessions' = [sessions EXCEPT ![c.actor] = SessionAfter(@, c.contact, now)]
  /\ calls' = calls \ {c}
  /\ last' = Event(IF c.merged THEN "saved_merge" ELSE "saved", c, c.contact,
                   contacts[c.contact])
  /\ UNCHANGED <<now, contacts, nStarted, identitySeen>>
  /\ UNCHANGED notCapture

\* handle_voice: the session is pointed at the contact and stamped with now.
UpdateSession(c) ==
  /\ c.pc = "save"
  /\ sessions' = [sessions EXCEPT ![c.actor] = SessionAfter(@, c.contact, now)]
  /\ calls' = calls \ {c}
  /\ last' = Event(IF c.merged THEN "saved_merge" ELSE "saved", c, c.contact,
                   contacts[c.contact])
  /\ UNCHANGED <<now, contacts, nStarted, identitySeen>>
  /\ UNCHANGED notCapture

\* The wall clock.
Advance ==
  /\ calls = {}
  /\ now + Tick <= MaxTime
  /\ now' = now + Tick
  /\ UNCHANGED <<contacts, sessions, calls, nStarted, last, identitySeen>>
  /\ UNCHANGED notCapture

Next ==
  \/ Advance
  \/ \E p \in Arrivals : Accept(p[1], p[2])
  \/ \E c \in calls : AddSession(c)
  \/ \E c \in calls : UpdateContact(c)
  \/ \E c \in calls : FindExisting(c)
  \/ \E c \in calls : CreateContact(c)
  \/ \E c \in calls : UpdateSession(c)

Spec == Init /\ [][Next]_vars

\* The handler beside background work that never comes back: every enrichment
\* is inside gather with both searches outstanding, and a dispatch task holds a
\* due reminder whose send has not returned. Neither has a step here.
HungRun == [NoRun EXCEPT !.pc = "gather"]
HungDispatcher == [slot |-> 1, todo |-> <<1>>]
InitDecoupled ==
  /\ contacts = <<>>
  /\ InitCapture
  /\ InitFind
  /\ runs = [c \in EnrichContacts |-> HungRun]
  /\ InitJobs /\ InitCache /\ InitThrottle /\ InitLimiter /\ InitWeb
  /\ beat = 0
  /\ reminders = <<[trigger_at |-> 0, status |-> "pending"]>>
  /\ dispatchers = {HungDispatcher}
  /\ channel = {}
  /\ lastRem = [op |-> "select", id |-> NoId,
                before |-> [trigger_at |-> NoTime, status |-> None],
                arg |-> NoTime, due |-> {1}, n |-> 1, again |-> FALSE]

\* A step of a handler that is running: the event loop runs every coroutine
\* that is ready.
CallStep ==
  \E c \in calls :
    \/ AddSession(c)
    \/ UpdateContact(c)
    \/ FindExisting(c)
    \/ CreateContact(c)
    \/ UpdateSession(c)

SpecDecoupled == InitDecoupled /\ [][Next]_vars /\ WF_vars(CallStep)

\* ------------------------------------------------- duplicate lookup
\* Contact.name.ilike("%name%"): a case-insensitive infix test, over the names
\* and patterns of the model.
LowerInfixes == [Ann |-> {"a", "n", "an", "nn", "ann"},
                 Bob |-> {"b", "o", "bo", "ob", "bob"}]
Lower == [an |-> "an", BO |-> "bo"]
QueryNames == {None, "an", "BO"}
ILike(recName, pattern) == Lower[pattern] \in LowerInfixes[recName]

\* ContactRepository.find_duplicates: conditions starts with the owner test,
\* each identifier given adds one, and the select takes or_(*conditions).
FindDuplicates(tbl, user, name, phone, telegram_username) ==
  {i \in 1..Len(tbl) :
     \/ tbl[i].user_id = user
     \/ (name # None /\ ILike(tbl[i].name, name))
     \/ (phone # None /\ tbl[i].phone = phone)
     \/ (telegram_username # None /\ tbl[i].telegram_username = telegram_username)}

FindRows ==
  {NewContact(u, [name |-> n, phone |-> p, telegram_username |-> h], Tick) :
     u \in Actors, n \in {"Ann", "Bob"}, p \in {None, "+1555"}, h \in {None, "@bob"}}

Tables(n) == UNION {[1..k -> FindRows] : k \in 0..n}

InitFindSpec ==
  /\ contacts \in Tables(MaxRows)
  /\ InitCapture
  /\ InitFind
  /\ InitEnrich
  /\ InitBackground

FindDuplicatesCall(u, n, p, h) ==
  /\ query' = [op |-> "find_duplicates", user |-> u, name |-> n, phone |-> p,
               telegram_username |-> h]
  /\ found' = FindDuplicates(contacts, u, n, p, h)
  /\ UNCHANGED <<contacts, captureVars, enrichVars, backgroundVars>>

NextFind ==
  \E u \in Actors, n \in QueryNames, p \in {None, "+1555"}, h \in {None, "@bob"} :
     FindDuplicatesCall(u, n, p, h)

SpecFind == InitFindSpec /\ [][NextFind]_vars

\* ------------------------------------------------------- enrichment
\* What a provider branch of asyncio.gather(..., return_exceptions=True) comes
\* back with: an exception, or a list of n results.
Outcomes == {[state |-> "failed", n |-> 0]} \cup
            {[state |-> "ok", n |-> k] : k \in 0..MaxResults}
Failed(o) == o.state = "failed"
BranchResults(b, o) == [i \in 1..o.n |-> [source |-> b, i |-> i]]

\* A variant of AllResults in which one failed branch loses the other's results.
AllResultsAbortOnFailure(profile, content) ==
  IF Failed(profile) \/ Failed(content) THEN <<>>
  ELSE BranchResults("profile", profile) \o BranchResults("content", content)

\* enrich_contact_final: all_results extended by each branch that is no Exception.
AllResults(profile, content) ==
  (IF Failed(profile) THEN <<>> ELSE BranchResults("profile", profile))
    \o (IF Failed(content) THEN <<>> ELSE BranchResults("content", content))

\* The status enrich reports for the branches' outcomes.
EnrichStatus(profile, content) ==
  IF ~Failed(profile) /\ ~Failed(content) THEN "success"
  ELSE IF Failed(profile) /\ Failed(content) THEN "error"
  ELSE "partial"

\* enrich_contact_final: both searches are started.
EnrichStart(c) ==
  /\ runs[c].pc \in {"idle", "done"}
  /\ runs' = [runs EXCEPT ![c] = [NoRun EXCEPT !.pc = "gather"]]
  /\ UNCHANGED <<contacts, captureVars, findVars, backgroundVars>>

\* A variant of ProviderReturn in which a search that raises takes the searches
\* still running down with it.
ProviderReturnCancelsSiblings(c, b, o) ==
  /\ runs[c].pc = "gather"
  /\ runs[c].branch[b] = Pending
  /\ runs' = [runs EXCEPT ![c].branch =
                [x \in Branches |->
                   IF x = b THEN o
                   ELSE IF Failed(o) /\ runs[c].branch[x] = Pending THEN o
                   ELSE runs[c].branch[x]]]
  /\ UNCHANGED <<contacts, captureVars, findVars, backgroundVars>>

\* A provider search returns or raises.
ProviderReturn(c, b, o) ==
  /\ runs[c].pc = "gather"
  /\ runs[c].branch[b] = Pending
  /\ runs' = [runs EXCEPT ![c].branch[b] = o]
  /\ UNCHANGED <<contacts, captureVars, findVars, backgroundVars>>

\* enrich_contact_final: gather has returned; the results are put together.
EnrichJoin(c) ==
  /\ runs[c].pc = "gather"
  /\ \A b \in Branches : runs[c].branch[b] # Pending
  /\ runs' = [runs EXCEPT
                ![c].pc = "done",
                ![c].results = AllResults(runs[c].branch["profile"], runs[c].branch["content"]),
                ![c].status = EnrichStatus(runs[c].branch["profile"], runs[c].branch["content"])]
  /\ UNCHANGED <<contacts, captureVars, findVars, backgroundVars>>

NextEnrich ==
  \/ \E c \in EnrichContacts : EnrichStart(c)
  \/ \E c \in EnrichContacts, b \in Branches, o \in Outcomes : ProviderReturn(c, b, o)
  \/ \E c \in EnrichContacts : EnrichJoin(c)

SpecEnrich == Init /\ [][NextEnrich]_vars

\* ------------------------------------------------- enrichment jobs
JobContacts == {"c1", "c2"}
JobResults == {"success", "error", "raised"}

RECURSIVE Pow2(_)
Pow2(n) == IF n = 0 THEN 1 ELSE 2 * Pow2(n - 1)

\* delay_minutes = 2 ** retry_count
DelayMinutes(retry_count) == Pow2(retry_count)

\* The job id f"enrich_{contact_id}_retry_{retry_count + 1}".
JobId(contact, retry) == <<contact, retry>>

\* scheduler.add_job(..., id=..., replace_existing=True): a job with the same
\* id is replaced, every other job stays.
AddJob(store, contact, retry, run_date) ==
  {j \in store : JobId(j.contact, j.retry_count) # JobId(contact, retry)}
    \cup {[contact |-> contact, retry_count |-> retry, run_date |-> run_date]}

\* `retry_count < MAX_RETRIES` on a result with status "error" or an exception.
ShouldRetry(result, retry_count) ==
  result \in {"error", "raised"} /\ retry_count < MAX_RETRIES

FreeExecution == CHOOSE s \in 1..MaxExecuting :
                   \A e \in executing : e.slot # s

\* Auto-enrich on save: the background job is started for the contact,
\* auto_enrich_contact_job(contact_id) with retry_count = 0.
TriggerEnrich(c) ==
  /\ nTriggered < MaxTriggers
  /\ Cardinality(executing) < MaxExecuting
  /\ nTriggered' = nTriggered + 1
  /\ executing' = executing \cup
                    {[slot |-> FreeExecution, contact |-> c, retry_count |-> 0]}
  /\ lastJob' = [NoJobEvent EXCEPT !.op = "trigger", !.contact = c]
  /\ UNCHANGED <<clock, jobs, failures>>
  /\ UNCHANGED <<contacts, captureVars, findVars, enrichVars, cacheVars, reminderVars, throttleVars, limiterVars, webVars>>

\* DateTrigger(run_date=retry_time): the scheduler starts a job whose run date
\* has come, with args [contact_id, retry_count + 1], and drops it from the store.
RunJob(j) ==
  /\ j \in jobs
  /\ j.run_date <= clock
  /\ Cardinality(executing) < MaxExecuting
  /\ jobs' = jobs \ {j}
  /\ executing' = executing \cup
                    {[slot |-> FreeExecution, contact |-> j.contact,
                      retry_count |-> j.retry_count]}
  /\ lastJob' = [NoJobEvent EXCEPT !.op = "run", !.contact = j.contact,
                                   !.retry_count = j.retry_count]
  /\ UNCHANGED <<clock, nTriggered, failures>>
  /\ UNCHANGED <<contacts, captureVars, findVars, enrichVars, cacheVars, reminderVars, throttleVars, limiterVars, webVars>>

\* What the job writes to the database when it gives up: in the elif branch
\* logger.error, in the except branch logger.exception, and nothing else.
GivenUp(contact, result) == {}

\* auto_enrich_contact_job from the return of enrich_contact (a result, or an
\* exception) to its end: the retry is scheduled, or the failure is logged.
FinishJob(e, result) ==
  /\ e \in executing
  /\ executing' = executing \ {e}
  /\ failures' = IF ShouldRetry(result, e.retry_count) THEN failures
                 ELSE failures \cup GivenUp(e.contact, result)
  /\ IF ShouldRetry(result, e.retry_count)
       THEN /\ jobs' = AddJob(jobs, e.contact, e.retry_count + 1,
                              clock + DelayMinutes(e.retry_count))
            /\ lastJob' = [op |-> "retry", contact |-> e.contact,
                           retry_count |-> e.retry_count,
                           delay |-> DelayMinutes(e.retry_count),
                           scheduled |-> Cardinality(AddJob(jobs, e.contact, e.retry_count + 1,
                                                clock + DelayMinutes(e.retry_count)) \ jobs)]
       ELSE /\ jobs' = jobs
            /\ lastJob' = [NoJobEvent EXCEPT
                             !.op = IF result = "success" THEN "ok" ELSE "exhausted",
                             !.contact = e.contact, !.retry_count = e.retry_count]
  /\ UNCHANGED <<clock, nTriggered>>
  /\ UNCHANGED <<contacts, captureVars, findVars, enrichVars, cacheVars, reminderVars, throttleVars, limiterVars, webVars>>

\* The scheduler's clock, in minutes; a job whose run date has come is started
\* before the clock moves on.
Minute ==
  /\ clock < MaxMinutes
  /\ \A j \in jobs : j.run_date > clock
  /\ clock' = clock + 1
  /\ UNCHANGED <<jobs, executing, nTriggered, lastJob, failures>>
  /\ UNCHANGED <<contacts, captureVars, findVars, enrichVars, cacheVars, reminderVars, throttleVars, limiterVars, webVars>>

NextJobs ==
  \/ Minute
  \/ \E c \in JobContacts : TriggerEnrich(c)
  \/ \E j \in jobs : RunJob(j)
  \/ \E e \in executing, r \in JobResults : FinishJob(e, r)

SpecJobs == Init /\ [][NextJobs]_vars

\* ------------------------------------------------ enrichment results
\* Granularity of the modelled calendar: half the staleness threshold.
DayTick == OSINT_ENRICHMENT_DELAY_DAYS \div 2

CacheContacts == {"c1", "c2"}
Payloads == {"p1", "p2"}

\* What the providers have to say about a contact: new data comes up once the
\* staleness threshold has passed.
ProviderPayload(t) == IF t < OSINT_ENRICHMENT_DELAY_DAYS THEN "p1" ELSE "p2"

\* What the providers of one run come back with: a payload per source, or None
\* for a source whose search failed.
Fetches(t) ==
  {[b \in Branches |-> IF b \in failed THEN None ELSE ProviderPayload(t)] :
     failed \in SUBSET Branches}

\* The stored results of one (contactId, source).
Entries(store, c, s) == {e \in store : e.contact = c /\ e.source = s}
Age(e, t) == t - e.fetchedAt

\* A variant of IsStale that takes an entry as old as the threshold for stale.
IsStaleAtThreshold(age) == age >= OSINT_ENRICHMENT_DELAY_DAYS

\* An entry is eligible for refresh once its age exceeds the threshold.
IsStale(age) == age > OSINT_ENRICHMENT_DELAY_DAYS

\* A variant of Upsert that adds the result beside the stored one.
UpsertAppend(store, c, s, payload, t) ==
  store \cup {[contact |-> c, source |-> s, payload |-> payload, fetchedAt |-> t]}

\* The result of (c, s) is written over the stored one.
Upsert(store, c, s, payload, t) ==
  (store \ Entries(store, c, s))
    \cup {[contact |-> c, source |-> s, payload |-> payload, fetchedAt |-> t]}

\* One source's result is saved: nothing for a failed search, nothing over an
\* entry that is not stale.
StoreResult(store, c, s, payload, t) ==
  IF payload = None \/ \E e \in Entries(store, c, s) : ~IsStale(Age(e, t))
  THEN store
  ELSE Upsert(store, c, s, payload, t)

StoreResults(store, c, fetched, t) ==
  StoreResult(StoreResult(store, c, "profile", fetched["profile"], t),
              c, "content", fetched["content"], t)

\* Every source of the contact has a stored result that is not stale.
AllCached(store, c, t) ==
  \A s \in Branches : \E e \in Entries(store, c, s) : ~IsStale(Age(e, t))

FreeCacheRun == CHOOSE s \in 1..MaxCacheRuns : \A r \in cacheRuns : r.slot # s

\* enrich_contact: `return {"status": "cached", "data": cached}` when the
\* stored results are fresh; otherwise the providers are queried.
CacheBegin(c) ==
  /\ Cardinality(cacheRuns) < MaxCacheRuns
  /\ IF AllCached(osint, c, day)
       THEN /\ lastCache' = [NoCacheEvent EXCEPT !.op = "cached", !.contact = c,
                                                !.before = osint, !.t = day]
            /\ UNCHANGED cacheRuns
       ELSE /\ cacheRuns' = cacheRuns \cup {[slot |-> FreeCacheRun, contact |-> c]}
            /\ lastCache' = [NoCacheEvent EXCEPT !.op = "begin", !.contact = c,
                                                !.before = osint, !.t = day]
  /\ UNCHANGED <<day, osint>>
  /\ UNCHANGED <<contacts, captureVars, findVars, enrichVars, jobVars, reminderVars, throttleVars, limiterVars, webVars>>

\* enrich_contact: the providers have answered; the results are saved.
CacheEnd(r, fetched) ==
  /\ r \in cacheRuns
  /\ cacheRuns' = cacheRuns \ {r}
  /\ osint' = StoreResults(osint, r.contact, fetched, day)
  /\ lastCache' = [op |-> "write", contact |-> r.contact, before |-> osint,
                   fetched |-> fetched, t |-> day]
  /\ UNCHANGED day
  /\ UNCHANGED <<contacts, captureVars, findVars, enrichVars, jobVars, reminderVars, throttleVars, limiterVars, webVars>>

\* The calendar; an enrichment run ends within the day it began.
NextDay ==
  /\ cacheRuns = {}
  /\ day + DayTick <= MaxDays
  /\ day' = day + DayTick
  /\ UNCHANGED <<osint, cacheRuns, lastCache>>
  /\ UNCHANGED <<contacts, captureVars, findVars, enrichVars, jobVars, reminderVars, throttleVars, limiterVars, webVars>>

NextCache ==
  \/ NextDay
  \/ \E c \in CacheContacts : CacheBegin(c)
  \/ \E r \in cacheRuns, f \in Fetches(day) : CacheEnd(r, f)

SpecCache == Init /\ [][NextCache]_vars

\* --------------------------------------------------------- reminders
\* Times handed to schedule and snooze, relative to the clock: one beat back,
\* now, one beat ahead.
Offsets == {-1, 0, 1}

\* A variant of ValidateFutureDate that admits the present moment.
ValidateFutureDateAdmitsNow(v, t) == ~(v < t)

\* ReminderCreate.validate_future_date: `if v <= datetime.now(): raise ValueError`.
ValidateFutureDate(v, t) == ~(v <= t)

RemIds == 1..Len(reminders)
NonTerminal == {"pending", "snoozed"}

\* ReminderService.create_reminder: the row a valid ReminderCreate is stored as.
NewReminder(trigger_at) ==
  [trigger_at |-> trigger_at, status |-> "pending"]

\* ReminderService.get_due_reminders: the rows of the table that are pending
\* and whose trigger time has come.
GetDueReminders(tbl, t) ==
  {i \in 1..Len(tbl) : tbl[i].status = "pending" /\ tbl[i].trigger_at <= t}

\* ReminderService.mark_sent: pending -> sent.
MarkSent(row) ==
  IF row.status = "pending" THEN [row EXCEPT !.status = "sent"] ELSE row

\* ReminderService.snooze on a valid time: the reminder triggers at the new
\* time (trigger_at stands for the time the row is due, snoozed_until once it
\* has been snoozed) and is pending again.
SnoozeRow(row, newTime) ==
  IF row.status \in NonTerminal
  THEN [row EXCEPT !.status = "pending", !.trigger_at = newTime]
  ELSE row

\* complete: pending -> completed.
CompleteRow(row) ==
  IF row.status = "pending" THEN [row EXCEPT !.status = "completed"] ELSE row

\* cancel: a reminder that is not in a terminal status becomes cancelled.
CancelRow(row) ==
  IF row.status \in NonTerminal THEN [row EXCEPT !.status = "cancelled"] ELSE row

\* A variant of AfterSend that puts a reminder whose send failed back to pending.
AfterSendRequeuesFailure(row, ok) ==
  IF ok THEN MarkSent(row) ELSE [row EXCEPT !.status = "pending"]

\* _send_reminders: mark_sent follows a send that returned; a send that raised
\* is printed and the row is not touched.
AfterSend(row, ok) == IF ok THEN MarkSent(row) ELSE row

\* A variant of DueAtTick that leaves out what a restart has taken from the
\* lists of the running tasks.
DueAtTickWithoutLost ==
  GetDueReminders(reminders, beat) \
    (IF lastRem.op = "restart" THEN lastRem.due ELSE {})

\* _send_reminders: `reminders = await reminder_service.get_due_reminders()`,
\* read from the table by every task that starts.
DueAtTick == GetDueReminders(reminders, beat)

\* The last operation on the table: the row it was about as it was before,
\* the time it was given, the table's length before.
RemEvent(op, id, arg) ==
  [op |-> op, id |-> id,
   before |-> IF id \in RemIds THEN reminders[id] ELSE NoReminder,
   arg |-> arg, due |-> {}, n |-> Len(reminders), again |-> FALSE]

WriteRow(id, row) == reminders' = [reminders EXCEPT ![id] = row]

\* POST of a ReminderCreate: the validator raises on a time that is not in the
\* future, and nothing is stored; a valid one is stored as a pending row.
Schedule(trigger_at) ==
  /\ Len(reminders) < MaxReminders
  /\ IF ValidateFutureDate(trigger_at, beat)
       THEN /\ reminders' = Append(reminders, NewReminder(trigger_at))
            /\ lastRem' = RemEvent("created", Len(reminders) + 1, trigger_at)
       ELSE /\ reminders' = reminders
            /\ lastRem' = RemEvent("validation_error", NoId, trigger_at)
  /\ UNCHANGED <<beat, dispatchers, channel>>
  /\ UNCHANGED <<contacts, captureVars, findVars, enrichVars, jobVars, cacheVars, throttleVars, limiterVars, webVars>>

\* Snooze Reminder: the user picks a new time.
Snooze(id, newTime) ==
  /\ id \in RemIds
  /\ IF ValidateFutureDate(newTime, beat)
       THEN /\ WriteRow(id, SnoozeRow(reminders[id], newTime))
            /\ lastRem' = RemEvent("snooze", id, newTime)
       ELSE /\ UNCHANGED reminders
            /\ lastRem' = RemEvent("snooze_rejected", id, newTime)
  /\ UNCHANGED <<beat, dispatchers, channel>>
  /\ UNCHANGED <<contacts, captureVars, findVars, enrichVars, jobVars, cacheVars, throttleVars, limiterVars, webVars>>

\* Complete Reminder: the user presses "Готово".
Complete(id) ==
  /\ id \in RemIds
  /\ WriteRow(id, CompleteRow(reminders[id]))
  /\ lastRem' = RemEvent("complete", id, NoTime)
  /\ UNCHANGED <<beat, dispatchers, channel>>
  /\ UNCHANGED <<contacts, captureVars, findVars, enrichVars, jobVars, cacheVars, throttleVars, limiterVars, webVars>>

Cancel(id) ==
  /\ id \in RemIds
  /\ WriteRow(id, CancelRow(reminders[id]))
  /\ lastRem' = RemEvent("cancel", id, NoTime)
  /\ UNCHANGED <<beat, dispatchers, channel>>
  /\ UNCHANGED <<contacts, captureVars, findVars, enrichVars, jobVars, cacheVars, throttleVars, limiterVars, webVars>>

RECURSIVE InOrder(_)
InOrder(ids) ==
  IF ids = {} THEN <<>>
  ELSE LET i == CHOOSE x \in ids : \A y \in ids : x <= y
       IN <<i>> \o InOrder(ids \ {i})

FreeDispatcher == CHOOSE s \in 1..MaxDispatchers : \A d \in dispatchers : d.slot # s

\* A variant of DispatchStart that takes the reminders it selects out of
\* pending, into a status only the task that selected them would leave.
DispatchStartMarksInFlight ==
  /\ Cardinality(dispatchers) < MaxDispatchers
  /\ LET due == DueAtTick
     IN /\ dispatchers' =
             IF due = {} THEN dispatchers
             ELSE dispatchers \cup
                    {[slot |-> FreeDispatcher,
                      todo |-> InOrder(due)]}
        /\ reminders' = [i \in RemIds |->
                           IF i \in due THEN [reminders[i] EXCEPT !.status = "in_flight"]
                           ELSE reminders[i]]
        /\ lastRem' = [RemEvent("select", NoId, NoTime) EXCEPT
                         !.due = due,
                         !.again = lastRem.op = "restart" /\ lastRem.due \cap due # {}]
  /\ UNCHANGED <<beat, channel>>
  /\ UNCHANGED <<contacts, captureVars, findVars, enrichVars, jobVars, cacheVars, throttleVars, limiterVars, webVars>>

\* send_due_reminders as celery beat starts it: _send_reminders reads the due
\* reminders into its list. A task that finds none ends at once.
DispatchStart ==
  /\ Cardinality(dispatchers) < MaxDispatchers
  /\ LET due == DueAtTick
     IN /\ dispatchers' =
             IF due = {} THEN dispatchers
             ELSE dispatchers \cup
                    {[slot |-> FreeDispatcher,
                      todo |-> InOrder(due)]}
        /\ lastRem' = [RemEvent("select", NoId, NoTime) EXCEPT
                         !.due = due,
                         !.again = lastRem.op = "restart" /\ lastRem.due \cap due # {}]
  /\ UNCHANGED <<beat, reminders, channel>>
  /\ UNCHANGED <<contacts, captureVars, findVars, enrichVars, jobVars, cacheVars, throttleVars, limiterVars, webVars>>

\* _send_reminders, one turn of `for reminder in reminders`: the notification
\* is sent and the reminder marked sent, or the send raises and the error is
\* printed; the task ends after the last reminder of its list.
Deliver(d, ok) ==
  /\ d \in dispatchers
  /\ LET r == Head(d.todo)
         rest == [d EXCEPT !.todo = Tail(d.todo)]
     IN /\ dispatchers' = IF rest.todo = <<>> THEN dispatchers \ {d}
                          ELSE (dispatchers \ {d}) \cup {rest}
        /\ channel' = IF ok THEN channel \cup {r} ELSE channel
        /\ WriteRow(r, AfterSend(reminders[r], ok))
        /\ lastRem' = [RemEvent(IF ok THEN "deliver" ELSE "send_failed", r, NoTime)
                         EXCEPT !.again = ok /\ r \in channel]
  /\ UNCHANGED beat
  /\ UNCHANGED <<contacts, captureVars, findVars, enrichVars, jobVars, cacheVars, throttleVars, limiterVars, webVars>>

\* The worker process is restarted: the running tasks and their lists are
\* gone, the table stays.
Restart ==
  /\ dispatchers # {}
  /\ dispatchers' = {}
  /\ lastRem' = [RemEvent("restart", NoId, NoTime) EXCEPT
                   !.due = UNION {Range(d.todo) : d \in dispatchers}]
  /\ UNCHANGED <<beat, reminders, channel>>
  /\ UNCHANGED <<contacts, captureVars, findVars, enrichVars, jobVars, cacheVars, throttleVars, limiterVars, webVars>>

\* The beat of the periodic schedule ('schedule': 60.0).
Beat ==
  /\ dispatchers = {}
  /\ beat < MaxBeats
  /\ beat' = beat + 1
  /\ lastRem' = NoRemEvent
  /\ UNCHANGED <<reminders, dispatchers, channel>>
  /\ UNCHANGED <<contacts, captureVars, findVars, enrichVars, jobVars, cacheVars, throttleVars, limiterVars, webVars>>

NextReminders ==
  \/ Beat
  \/ \E dt \in Offsets : Schedule(beat + dt)
  \/ \E id \in RemIds, dt \in Offsets : Snooze(id, beat + dt)
  \/ \E id \in RemIds : Complete(id)
  \/ \E id \in RemIds : Cancel(id)
  \/ DispatchStart
  \/ \E d \in dispatchers, ok \in BOOLEAN : Deliver(d, ok)
  \/ Restart

SpecReminders == Init /\ [][NextReminders]_vars

\* The dispatcher is fair: celery beat keeps starting send_due_reminders, a
\* started task gets through its list, the clock moves on. Nothing is assumed
\* of the channel: a send may fail every time.
SpecRemindersFair ==
  /\ SpecReminders
  /\ WF_vars(Beat)
  /\ WF_vars(DispatchStart)
  /\ SF_vars(\E d \in dispatchers, ok \in BOOLEAN : Deliver(d, ok))

\* ------------------------------------------------ enrichment throttle
\* OSINTService.__init__: each instance has its own Semaphore(rate_limit) and
\* its own TokenBucket(rate=10, per_second=1); the bucket starts full.
NewOSINTService ==
  [permits |-> RATE_LIMIT, waitSem |-> 0, waitTok |-> 0, calling |-> 0,
   tokens |-> BUCKET_RATE]

ServiceIds == 1..Len(services)

\* TokenBucket.acquire on a bucket of t tokens: one token is taken if there is
\* one, the caller waits for the refill otherwise.
HasToken(t) == t > 0

\* TokenBucket refill after one second: rate tokens more, up to the capacity.
Refill(t) == IF t + BUCKET_RATE > BUCKET_RATE THEN BUCKET_RATE ELSE t + BUCKET_RATE

\* enrich_contact from the moment the caller holds the semaphore:
\* `await self._rate_limiter.acquire()`, then the enrichment runs.
AfterPermit(svc) ==
  IF HasToken(svc.tokens)
  THEN [svc EXCEPT !.tokens = @ - 1, !.calling = @ + 1]
  ELSE [svc EXCEPT !.waitTok = @ + 1]

\* `osint_service = OSINTService(session)`: every enrichment job and every
\* enrichment task constructs its own service.
NewService ==
  /\ Len(services) < MaxServices
  /\ services' = Append(services, NewOSINTService)
  /\ UNCHANGED <<sec, started>>
  /\ UNCHANGED <<contacts, captureVars, findVars, enrichVars, jobVars, cacheVars, reminderVars, limiterVars, webVars>>

\* enrich_contact is called on service s: `async with self._semaphore`.
EnrichEnter(s) ==
  /\ s \in ServiceIds
  /\ started < MaxStarted
  /\ LET svc == services[s]
         in == AfterPermit([svc EXCEPT !.permits = @ - 1])
     IN IF svc.permits > 0
        THEN /\ services' = [services EXCEPT ![s] = in]
             /\ started' = started + (in.calling - svc.calling)
        ELSE /\ svc.waitSem < MaxWaiting
             /\ services' = [services EXCEPT ![s].waitSem = @ + 1]
             /\ started' = started
  /\ UNCHANGED sec
  /\ UNCHANGED <<contacts, captureVars, findVars, enrichVars, jobVars, cacheVars, reminderVars, limiterVars, webVars>>

\* A caller waiting in acquire() gets a token of the refilled bucket.
TokenGranted(s) ==
  /\ s \in ServiceIds
  /\ started < MaxStarted
  /\ services[s].waitTok > 0
  /\ HasToken(services[s].tokens)
  /\ services' = [services EXCEPT ![s].waitTok = @ - 1, ![s].tokens = @ - 1,
                                   ![s].calling = @ + 1]
  /\ started' = started + 1
  /\ UNCHANGED sec
  /\ UNCHANGED <<contacts, captureVars, findVars, enrichVars, jobVars, cacheVars, reminderVars, limiterVars, webVars>>

\* The enrichment of a caller ends and `async with` releases the semaphore:
\* the permit goes to a waiting caller if there is one.
EnrichExit(s) ==
  /\ s \in ServiceIds
  /\ services[s].calling > 0
  /\ LET out == [services[s] EXCEPT !.calling = @ - 1]
         next == IF out.waitSem > 0
                 THEN AfterPermit([out EXCEPT !.waitSem = @ - 1])
                 ELSE [out EXCEPT !.permits = @ + 1]
     IN /\ out.waitSem > 0 => started < MaxStarted
        /\ services' = [services EXCEPT ![s] = next]
        /\ started' = started + (next.calling - out.calling)
  /\ UNCHANGED sec
  /\ UNCHANGED <<contacts, captureVars, findVars, enrichVars, jobVars, cacheVars, reminderVars, limiterVars, webVars>>

\* One second passes: every bucket is refilled.
Second ==
  /\ sec < MaxSeconds
  /\ sec' = sec + 1
  /\ services' = [s \in ServiceIds |-> [services[s] EXCEPT !.tokens = Refill(@)]]
  /\ UNCHANGED started
  /\ UNCHANGED <<contacts, captureVars, findVars, enrichVars, jobVars, cacheVars, reminderVars, limiterVars, webVars>>

NextThrottle ==
  \/ NewService
  \/ \E s \in ServiceIds : EnrichEnter(s)
  \/ \E s \in ServiceIds : TokenGranted(s)
  \/ \E s \in ServiceIds : EnrichExit(s)
  \/ Second

SpecThrottle == Init /\ [][NextThrottle]_vars

\* ----------------------------------------------------- rate limiter
\* Granularity of the limiter's clock: half the window.
LimiterTick == RATE_LIMIT_WINDOW_SECONDS \div 2

\* A defaultdict(list) keyed by user id, in insertion order.
HasKey(d, u) == \E i \in 1..Len(d) : d[i].user = u
Get(d, u) ==
  IF HasKey(d, u) THEN d[CHOOSE i \in 1..Len(d) : d[i].user = u].stamps ELSE <<>>
SetKey(d, u, v) ==
  IF HasKey(d, u)
  THEN [i \in 1..Len(d) |-> IF d[i].user = u THEN [user |-> u, stamps |-> v] ELSE d[i]]
  ELSE Append(d, [user |-> u, stamps |-> v])
DelKey(d, u) == SelectSeq(d, LAMBDA e : e.user # u)

\* max(history)
MaxOf(history) == CHOOSE x \in Range(history) : \A y \in Range(history) : y <= x

\* is_allowed: the requests of the user inside the window,
\* [req_time for req_time in ... if req_time > window_start].
InWindow(history, t) ==
  SelectSeq(history, LAMBDA req_time : req_time > t - RATE_LIMIT_WINDOW_SECONDS)

\* is_allowed: False when len(...) >= max_requests, True otherwise.
IsAllowed(history, t, max_requests) == ~(Len(InWindow(history, t)) >= max_requests)

\* A variant of AfterIsAllowed that records the request whether or not it is
\* admitted.
AfterIsAllowedRecordsDenied(history, t, max_requests) ==
  Append(InWindow(history, t), t)

\* is_allowed: the user's list after the call.
AfterIsAllowed(history, t, max_requests) ==
  IF IsAllowed(history, t, max_requests)
  THEN Append(InWindow(history, t), t)
  ELSE InWindow(history, t)

\* The history of a class and the keys of it that differ between two states.
HistoryOf(class, req, voice) == IF class = "general" THEN req ELSE voice
Touched(req, voice, req2, voice2) ==
  {k \in LimiterKeys :
     \/ HasKey(HistoryOf(k[2], req, voice), k[1]) # HasKey(HistoryOf(k[2], req2, voice2), k[1])
     \/ Get(HistoryOf(k[2], req, voice), k[1]) # Get(HistoryOf(k[2], req2, voice2), k[1])}

\* The admissions of a key that live holds, and the keys with an admission
\* in live that the histories no longer hold.
LiveOf(k) == {a \in live : a.user = k[1] /\ a.class = k[2]}
Lost(req, voice) ==
  {k \in LimiterKeys :
     {a.t : a \in LiveOf(k)} \ Range(Get(HistoryOf(k[2], req, voice), k[1])) # {}}

\* The keys whose newest request is not older than the sweep's cutoff.
Recent(req, voice, t) ==
  {k \in LimiterKeys :
     LET h == Get(HistoryOf(k[2], req, voice), k[1])
     IN h # <<>> /\ ~(MaxOf(h) < t - INACTIVE_SECONDS)}

\* rate_limit_middleware for an operation of a class: the check of the user
\* against the history and the limit of that class.
Allow(u, class) ==
  LET before == Get(HistoryOf(class, request_history, voice_history), u)
      ok == IsAllowed(before, ltime, limits[class])
      after == AfterIsAllowed(before, ltime, limits[class])
      req2 == IF class = "general" THEN SetKey(request_history, u, after)
              ELSE request_history
      voice2 == IF class = "voice" THEN SetKey(voice_history, u, after)
                ELSE voice_history
  IN /\ request_history' = req2
     /\ voice_history' = voice2
     /\ live' = IF ok
                THEN live \cup {[user |-> u, class |-> class, t |-> ltime,
                                 i |-> Cardinality(LiveOf(<<u, class>>))]}
                ELSE live
     /\ lastAllow' = [op |-> "allow", user |-> u, class |-> class, allowed |-> ok,
                      seen |-> Cardinality(LiveOf(<<u, class>>)),
                      touched |-> Touched(request_history, voice_history, req2, voice2)]
     /\ UNCHANGED <<ltime, limits>>
     /\ UNCHANGED <<contacts, captureVars, findVars, enrichVars, jobVars, cacheVars, reminderVars, throttleVars, webVars>>

\* _cleanup_inactive_users: the users whose newest general request is older
\* than the cutoff, in the order of request_history.items().
InactiveUsers(req, t) ==
  SelectSeq(req, LAMBDA e : e.stamps # <<>> /\ MaxOf(e.stamps) < t - INACTIVE_SECONDS)

\* _cleanup_inactive_users: `for user_id in inactive_users`, both del
\* statements; del on a key the dict does not hold raises KeyError and ends
\* the sweep.
RECURSIVE DeleteInactive(_, _, _)
DeleteInactive(inactive, req, voice) ==
  IF inactive = <<>> THEN [req |-> req, voice |-> voice, raised |-> FALSE]
  ELSE LET u == Head(inactive).user
       IN IF HasKey(voice, u)
          THEN DeleteInactive(Tail(inactive), DelKey(req, u), DelKey(voice, u))
          ELSE [req |-> DelKey(req, u), voice |-> voice, raised |-> TRUE]

Sweep ==
  LET r == DeleteInactive(InactiveUsers(request_history, ltime),
                          request_history, voice_history)
  IN /\ request_history' = r.req
     /\ voice_history' = r.voice
     /\ lastAllow' = [op |-> "sweep", raised |-> r.raised,
                      touched |-> Touched(request_history, voice_history, r.req, r.voice),
                      lost |-> Lost(r.req, r.voice) \ Lost(request_history, voice_history),
                      recent |-> Recent(request_history, voice_history, ltime)
                                   \cap Touched(request_history, voice_history, r.req, r.voice)]
     /\ UNCHANGED <<ltime, limits, live>>
     /\ UNCHANGED <<contacts, captureVars, findVars, enrichVars, jobVars, cacheVars, reminderVars, throttleVars, webVars>>

\* Time passes: half a window, or a day without any request.
Elapse(dt) ==
  /\ dt = LimiterTick => (ltime % INACTIVE_SECONDS) \div LimiterTick < MaxTicks
  /\ dt = INACTIVE_SECONDS => ltime \div INACTIVE_SECONDS < MaxIdleDays
  /\ ltime' = ltime + dt
  /\ live' = {a \in live : a.t > ltime + dt - RATE_LIMIT_WINDOW_SECONDS}
  /\ lastAllow' = NoAllowEvent
  /\ UNCHANGED <<limits, request_history, voice_history>>
  /\ UNCHANGED <<contacts, captureVars, findVars, enrichVars, jobVars, cacheVars, reminderVars, throttleVars, webVars>>

NextLimiter ==
  \/ \E u \in LimiterUsers, class \in Classes : Allow(u, class)
  \/ Sweep
  \/ \E dt \in {LimiterTick, INACTIVE_SECONDS} : Elapse(dt)

InitLimiterSpec ==
  /\ contacts = <<>>
  /\ InitCapture
  /\ InitFind
  /\ InitEnrich
  /\ InitJobs /\ InitCache /\ InitReminders /\ InitThrottle /\ InitWeb
  /\ NoHistory
  /\ limits \in Configs

SpecLimiter == InitLimiterSpec /\ [][NextLimiter]_vars

\* One RateLimiter (the general class) between two sweeps: is_allowed calls
\* and the passing of the window.
NextIsAllowed ==
  \/ \E u \in LimiterUsers : Allow(u, "general")
  \/ \E dt \in {LimiterTick} : Elapse(dt)

SpecIsAllowed == InitLimiterSpec /\ [][NextIsAllowed]_vars

\* ------------------------------------------------- webapp: API client
\* JavaScript values a response body's detail can hold: undefined (no such
\* property), a string, an array of objects (the detail of a validation error).
Undefined == [type |-> "undefined", s |-> ""]
JsString(s) == [type |-> "string", s |-> s]
JsArray == [type |-> "array", s |-> ""]

\* a || b chooses on truthiness: undefined and "" are falsy, an array is truthy.
Truthy(v) == v.type = "array" \/ (v.type = "string" /\ v.s # "")
Or(a, b) == IF Truthy(a) THEN a ELSE b

\* super(message): Error converts its message to a string.
StringOf(v) == IF v.type = "array" THEN "[object Object]" ELSE v.s

\* The body of a response: text that is not JSON, the JSON null, or a JSON
\* object, with its detail and its payload.
NoData == NoShare
TextBody == [kind |-> "text", detail |-> Undefined, data |-> NoData]
NullBody == [kind |-> "null", detail |-> Undefined, data |-> NoData]
ObjectBody(detail, data) == [kind |-> "object", detail |-> detail, data |-> data]
EmptyObject == ObjectBody(Undefined, NoData)

\* res.ok: the status is in the range 200-299.
ResOk(res) == res.status >= 200 /\ res.status <= 299

\* What a call of request() ends with.
NoStatus == 0
Return(value) ==
  [kind |-> "return", value |-> value, error |-> None, status |-> NoStatus,
   message |-> None]
Throw(error, status, message) ==
  [kind |-> "throw", value |-> NullBody, error |-> error, status |-> status,
   message |-> message]

\* res.json(): the parsed body, or a rejection when the text is not JSON.
JsonRejects(res) == res.body.kind = "text"

\* request(): `if (!res.ok) { body = await res.json().catch(() => ({}));
\* throw new ApiError(res.status, body.detail || 'Request failed') }
\* return res.json()`. Reading .detail of null is a TypeError.
RequestOutcome(res) ==
  IF ~ResOk(res)
  THEN LET body == IF JsonRejects(res) THEN EmptyObject ELSE res.body
       IN IF body.kind = "null"
          THEN Throw("TypeError", NoStatus, "Cannot read properties of null")
          ELSE Throw("ApiError", res.status,
                     StringOf(Or(body.detail, JsString("Request failed"))))
  ELSE IF JsonRejects(res) THEN Throw("SyntaxError", NoStatus, "Unexpected token")
       ELSE Return(res.body)

\* The responses a call is tried with.
StatusCodes == {200, 400, 404, 422, 500}
Details == {Undefined, JsString(""), JsString("Not found"), JsArray}
ApiBodies == {TextBody, NullBody} \cup {ObjectBody(d, NoData) : d \in Details}
ApiResponses == [status : StatusCodes, body : ApiBodies]
Paths == {"/catalog", "/share/tok", "/share/id/1", "/purchase"}

Request(path, res) ==
  /\ api' = [op |-> "request", path |-> path, res |-> res,
             outcome |-> RequestOutcome(res)]
  /\ UNCHANGED <<page, catalog, net>>
  /\ UNCHANGED <<contacts, captureVars, findVars, enrichVars, jobVars, cacheVars, reminderVars, throttleVars, limiterVars>>

NextApi == \E path \in Paths, res \in ApiResponses : Request(path, res)

SpecApi == Init /\ [][NextApi]_vars

\* -------------------------------------------- webapp: ContactViewPage
\* The shares the backend answers with.
Visibilities == {"public", "private", "paid"}
Prices == {"0", "100"}
Shares ==
  {[id |-> 1, visibility |-> v, already_purchased |-> p, is_owner |-> o,
    price_amount |-> a] :
     v \in Visibilities, p \in BOOLEAN, o \in BOOLEAN, a \in Prices \cup {None}}
  \ {sh \in [id : {1}, visibility : Visibilities, already_purchased : BOOLEAN,
             is_owner : BOOLEAN, price_amount : Prices \cup {None}] :
       (sh.visibility = "paid") # (sh.price_amount # None)}

\* parseFloat(share.price_amount || '0')
ParseFloat(a) == IF a = "100" THEN 100 ELSE 0
OrZero(a) == IF a = None THEN "0" ELSE a
IsPaid(share) == share.visibility = "paid" /\ ParseFloat(OrZero(share.price_amount)) > 0

\* A variant of CanSeeDetails that also opens a paid share whose price is zero.
CanSeeDetailsWhenFree(share) ==
  share.already_purchased \/ share.is_owner \/ share.visibility = "public"
    \/ (share.visibility = "paid" /\ ~IsPaid(share))

\* canSeeDetails
CanSeeDetails(share) ==
  share.already_purchased \/ share.is_owner \/ share.visibility = "public"

\* What the component returns: the early returns on loading, error and a
\* missing share, then the card with the details or the lock, and the web
\* purchase button outside Telegram.
WebButtons(p) == ~p.isTelegram /\ ~p.share.already_purchased /\ ~p.share.is_owner
Render(p) ==
  IF p.loading THEN {"spinner"}
  ELSE IF p.error # None THEN {"error"}
  ELSE IF p.share = NoShare THEN {"not_found"}
  ELSE {"header", "back"}
         \cup (IF CanSeeDetails(p.share) THEN {"details"} ELSE {"lock"})
         \cup (IF p.share.already_purchased THEN {"purchased_note"} ELSE {})
         \cup (IF WebButtons(p) THEN {"web_button"} ELSE {})

\* The effect for the Telegram main button: the provider its callback buys
\* with, None when the button is not shown. The effect's cleanup hides the
\* button whenever share changes.
MainButton(p) ==
  IF ~p.isTelegram \/ p.share = NoShare THEN None
  ELSE IF p.share.already_purchased \/ p.share.is_owner THEN None
  ELSE IF IsPaid(p.share) THEN "telegram" ELSE "free"

\* The answers of the backend to the page's requests.
OkResponse(data) == [status |-> 200, body |-> ObjectBody(Undefined, data)]
NotFound == [status |-> 404, body |-> ObjectBody(JsString("Not found"), NoData)]
LoadResponses == {OkResponse(sh) : sh \in Shares} \cup {NotFound}
PurchaseResponses == {OkResponse(NoData), NotFound}

Send(kind) == [net EXCEPT !.pending[kind] = @ + 1]
Done(n, kind) == [n EXCEPT !.pending[kind] = @ - 1]
Mounted(kind) == [NoRequests EXCEPT !.pending[kind] = 1]

\* loadShare after its await: setShare(data), or setError(e.message) in the
\* catch; setLoading(false) in the finally.
AfterLoadShare(p, out) ==
  IF out.kind = "return"
  THEN [p EXCEPT !.share = out.value.data, !.loading = FALSE]
  ELSE [p EXCEPT !.error = out.message, !.loading = FALSE]

\* The page is mounted: the first effect has called loadShare.
InitContactView ==
  /\ contacts = <<>>
  /\ InitCapture
  /\ InitFind
  /\ InitEnrich
  /\ InitJobs /\ InitCache /\ InitReminders /\ InitThrottle /\ InitLimiter
  /\ \E isTelegram \in BOOLEAN : page = PageDefaults(isTelegram)
  /\ catalog = NotMounted
  /\ net = Mounted("load")
  /\ api = NoApiEvent

\* useEffect(() => { loadShare() }, [shareId, token]): the route parameter
\* changes under the mounted page.
Navigate ==
  /\ net.navigations < MaxNavigations
  /\ page' = [page EXCEPT !.loading = TRUE]
  /\ net' = [Send("load") EXCEPT !.navigations = @ + 1]
  /\ api' = [op |-> "navigate"]
  /\ UNCHANGED catalog
  /\ UNCHANGED <<contacts, captureVars, findVars, enrichVars, jobVars, cacheVars, reminderVars, throttleVars, limiterVars>>

\* loadShare called by the effect: the request returns.
LoadShareReturn(res) ==
  /\ net.pending["load"] > 0
  /\ LET out == RequestOutcome(res)
     IN /\ page' = AfterLoadShare(page, out)
        /\ api' = [op |-> "loadShare", ok |-> out.kind = "return"]
  /\ net' = Done(net, "load")
  /\ UNCHANGED catalog
  /\ UNCHANGED <<contacts, captureVars, findVars, enrichVars, jobVars, cacheVars, reminderVars, throttleVars, limiterVars>>

\* handlePurchase up to its first await: setPurchasing(true) and the
\* purchaseContact request.
StartPurchase(via, provider) ==
  /\ net.purchases < MaxPurchases
  /\ page.share # NoShare
  /\ page' = [page EXCEPT !.purchasing = TRUE]
  /\ net' = [Send("purchase") EXCEPT !.purchases = @ + 1]
  /\ api' = [op |-> "purchaseContact", via |-> via, provider |-> provider,
             pending |-> net.pending["purchase"]]
  /\ UNCHANGED catalog
  /\ UNCHANGED <<contacts, captureVars, findVars, enrichVars, jobVars, cacheVars, reminderVars, throttleVars, limiterVars>>

\* The button of the page is clicked: it is there when the card is rendered
\* outside Telegram for a share not yet bought, disabled while purchasing.
TapWebButton ==
  /\ "web_button" \in Render(page)
  /\ ~page.purchasing
  /\ StartPurchase("web_button", IF IsPaid(page.share) THEN "yookassa" ELSE "free")

\* The Telegram main button is tapped: the callback the effect registered
\* calls handlePurchase.
TapMainButton ==
  /\ MainButton(page) # None
  /\ StartPurchase("main_button", MainButton(page))

\* handlePurchase after purchaseContact: loadShare is called on success;
\* setError(e.message) and setPurchasing(false) on failure.
PurchaseReturn(res) ==
  /\ net.pending["purchase"] > 0
  /\ LET out == RequestOutcome(res)
     IN IF out.kind = "return"
        THEN /\ page' = [page EXCEPT !.loading = TRUE]
             /\ net' = [Done(net, "purchase") EXCEPT !.pending["reload"] = @ + 1]
             /\ api' = [op |-> "purchased", ok |-> TRUE]
        ELSE /\ page' = [page EXCEPT !.error = out.message, !.purchasing = FALSE]
             /\ net' = Done(net, "purchase")
             /\ api' = [op |-> "purchased", ok |-> FALSE]
  /\ UNCHANGED catalog
  /\ UNCHANGED <<contacts, captureVars, findVars, enrichVars, jobVars, cacheVars, reminderVars, throttleVars, limiterVars>>

\* handlePurchase after `await loadShare()`: loadShare has set the share or
\* the error, the finally sets purchasing to false.
ReloadReturn(res) ==
  /\ net.pending["reload"] > 0
  /\ LET out == RequestOutcome(res)
     IN /\ page' = [AfterLoadShare(page, out) EXCEPT !.purchasing = FALSE]
        /\ api' = [op |-> "loadShare", ok |-> out.kind = "return"]
  /\ net' = Done(net, "reload")
  /\ UNCHANGED catalog
  /\ UNCHANGED <<contacts, captureVars, findVars, enrichVars, jobVars, cacheVars, reminderVars, throttleVars, limiterVars>>

NextContactView ==
  \/ Navigate
  \/ \E res \in LoadResponses : LoadShareReturn(res)
  \/ TapWebButton
  \/ TapMainButton
  \/ \E res \in PurchaseResponses : PurchaseReturn(res)
  \/ \E res \in LoadResponses : ReloadReturn(res)

SpecContactView == InitContactView /\ [][NextContactView]_vars

\* ------------------------------------------------ webapp: CatalogPage
\* The catalog the backend answers with: data.shares may be missing.
CatalogData(has_shares, shares) ==
  [id |-> NoId, has_shares |-> has_shares, shares |-> shares]
CatalogLists == {<<>>, <<1>>, <<1, 2>>}
ServerError == [status |-> 500, body |-> TextBody]
NullError == [status |-> 502, body |-> NullBody]
CatalogResponses ==
  {OkResponse(CatalogData(TRUE, l)) : l \in CatalogLists}
    \cup {OkResponse(CatalogData(FALSE, <<>>)), ServerError, NullError, NotFound}

\* data.shares || []
SharesOr(data) == IF data.has_shares THEN data.shares ELSE <<>>

\* loadCatalog after its await.
AfterLoadCatalog(c, out) ==
  IF out.kind = "return"
  THEN [c EXCEPT !.shares = SharesOr(out.value.data), !.loading = FALSE]
  ELSE [c EXCEPT !.error = out.message, !.loading = FALSE]

\* What CatalogPage returns: four blocks, each under its own condition.
RenderCatalog(c) ==
  (IF c.loading THEN {"spinner"} ELSE {})
    \cup (IF c.error # None THEN {"error", "retry"} ELSE {})
    \cup (IF ~c.loading /\ c.error = None /\ Len(c.shares) = 0 THEN {"empty"} ELSE {})
    \cup (IF Len(c.shares) > 0 THEN {"cards"} ELSE {})

\* The page is mounted: the effect has called loadCatalog.
InitCatalog ==
  /\ contacts = <<>>
  /\ InitCapture
  /\ InitFind
  /\ InitEnrich
  /\ InitJobs /\ InitCache /\ InitReminders /\ InitThrottle /\ InitLimiter
  /\ page = NotMounted
  /\ catalog = CatalogDefaults
  /\ net = Mounted("catalog")
  /\ api = NoApiEvent

LoadCatalogReturn(res) ==
  /\ net.pending["catalog"] > 0
  /\ LET out == RequestOutcome(res)
     IN /\ catalog' = AfterLoadCatalog(catalog, out)
        /\ api' = [op |-> "loadCatalog", ok |-> out.kind = "return"]
  /\ net' = Done(net, "catalog")
  /\ UNCHANGED page
  /\ UNCHANGED <<contacts, captureVars, findVars, enrichVars, jobVars, cacheVars, reminderVars, throttleVars, limiterVars>>

\* The button "Повторить" of the error block: onClick={loadCatalog}.
Retry ==
  /\ "retry" \in RenderCatalog(catalog)
  /\ net.retries < MaxRetries
  /\ catalog' = [catalog EXCEPT !.loading = TRUE]
  /\ net' = [Send("catalog") EXCEPT !.retries = @ + 1]
  /\ api' = [op |-> "retry"]
  /\ UNCHANGED page
  /\ UNCHANGED <<contacts, captureVars, findVars, enrichVars, jobVars, cacheVars, reminderVars, throttleVars, limiterVars>>

NextCatalog ==
  \/ \E res \in CatalogResponses : LoadCatalogReturn(res)
  \/ Retry

SpecCatalog == InitCatalog /\ [][NextCatalog]_vars

\* ------------------------------------------------------------ claims
W == MERGE_TIMEOUT_SECONDS
Row(i) == contacts[i]
Merged == last.op = "merge"
LastData == FragData(last.frag)

\* C1: under every interleaving of accept calls of one actor there is at most
\* one open capture session of that actor, a record of the actor whose capture
\* window has not elapsed: two near-simultaneous fragments never each open
\* their own.
OpenSessions(a) ==
  {i \in 1..Len(contacts) : Row(i).user_id = a /\ now - Row(i).updated_at < W}

C1_AtMostOneOpenSession == \A a \in Actors : Cardinality(OpenSessions(a)) <= 1

\* C2: a fragment is merged into the session's record only when
\* now - session.updatedAt < MERGE_WINDOW, strictly; at MERGE_WINDOW or more the
\* duplicate check / new record path is taken.
C2_StrictWindow ==
  /\ \A c \in calls :
       c.pc = "update" =>
         c.active_id # NoId /\ c.active_time # NoTime /\ c.t - c.active_time < W
  /\ Merged =>
       /\ last.id = last.active_id
       /\ last.active_time # NoTime
       /\ last.t - last.active_time < W

C2_AtBoundary ==
  /\ last.op \in {"create", "duplicate"}
  /\ last.active_id # NoId
  /\ last.t - last.active_time = W

\* C3: the window slides: a completed merge stamps the session with the merge
\* time, and a fragment less than MERGE_WINDOW after the session's stamp is
\* merged into the session's record whatever the record's age.
C3_SlidingWindow ==
  /\ last.op = "saved_merge" =>
       /\ sessions[last.actor].last_contact_time = last.t
       /\ sessions[last.actor].last_contact_id = last.id
  /\ \A c \in calls :
       (c.pc \in {"find", "create"} /\ c.active_id # NoId /\ c.active_time # NoTime)
         => c.t - c.active_time >= W

C3_MergedPastFirstWindow ==
  /\ last.op = "saved_merge"
  /\ last.t - Row(last.id).created_at >= W
  /\ last.t - last.active_time < W

\* C4: f1 then f2 within the window give one record with f2's identity fields,
\* and every field f1 supplied that f2 leaves absent (null/empty) keeps f1's
\* value.
Absent(data, k) == k \notin DOMAIN data \/ IsEmpty(k, data[k])

C4_MergeKeepsAbsentFields ==
  Merged =>
    /\ Len(contacts) = last.n
    /\ \A k \in IdentityFields : ~Absent(LastData, k) => Row(last.id)[k] = LastData[k]
    /\ \A k \in Fields : Absent(LastData, k) => Row(last.id)[k] = last.before[k]

\* C5: in one window the merged record's name and phone are the identity
\* source's (forwarded contact), whichever of the two fragments came first.
C5_IdentityPriority ==
  (Merged /\ identitySeen[last.id] # NoIdentity /\ last.t - last.before.updated_at < W)
    => /\ Row(last.id).name = identitySeen[last.id].name
       /\ Row(last.id).phone = identitySeen[last.id].phone

\* C6: free-text-only lists are additive: a merge keeps every item the record
\* already had.
C6_FreeTextAdditive ==
  Merged => Range(last.before.agreements) \subseteq Range(Row(last.id).agreements)

MatchesQuery(rec, q) ==
  \/ (q.phone # None /\ rec.phone = q.phone)
  \/ (q.telegram_username # None /\ rec.telegram_username = q.telegram_username)

C9_FindExactlyOwnMatches ==
  (query.op = "find_duplicates" /\ query.name = None) =>
    found = {i \in 1..Len(contacts) :
               Row(i).user_id = query.user /\ MatchesQuery(Row(i), query)}

\* C10: enrich's status is success iff no branch failed, partial iff some but
\* not all failed, error iff all failed; its results are exactly the results of
\* the branches that did not fail.
FailedBranches(r) == {b \in Branches : Failed(r.branch[b])}
OkItems(r) ==
  {[source |-> b, i |-> i] : b \in Branches \ FailedBranches(r), i \in 1..MaxResults + 1}
    \cap {x \in [source : Branches, i : 1..MaxResults + 1] : x.i <= r.branch[x.source].n}

C10_StatusFromOutcomes ==
  \A c \in EnrichContacts :
    runs[c].pc = "done" =>
      LET r == runs[c] IN
        /\ (r.status = "success") <=> (FailedBranches(r) = {})
        /\ (r.status = "partial") <=> (FailedBranches(r) # {} /\ FailedBranches(r) # Branches)
        /\ (r.status = "error") <=> (FailedBranches(r) = Branches)
        /\ Range(r.results) = OkItems(r)
        /\ Len(r.results) = Cardinality(OkItems(r))

C10_OneTimedOutOtherThree ==
  \E c \in EnrichContacts :
    /\ runs[c].pc = "done"
    /\ Failed(runs[c].branch["profile"])
    /\ runs[c].branch["content"] = [state |-> "ok", n |-> 3]
    /\ runs[c].status = "partial"
    /\ Len(runs[c].results) = 3
\* C11: each failure of the whole operation before the cap schedules exactly
\* one retry, delayed 1, 2, 4, ... minutes; once MAX_RETRIES attempts have failed
\* no retry is scheduled, so no attempt beyond the MAX_RETRIES-th ever runs for
\* one trigger (retry_count counts the attempts before the one executing).
Attempt(retry_count) == retry_count + 1

C11_RetryPolicy ==
  /\ lastJob.op = "retry" =>
        /\ Attempt(lastJob.retry_count) < MAX_RETRIES
        /\ lastJob.delay = Pow2(Attempt(lastJob.retry_count) - 1)
  /\ lastJob.op = "exhausted" => Attempt(lastJob.retry_count) = MAX_RETRIES
  /\ \A e \in executing : Attempt(e.retry_count) <= MAX_RETRIES

\* C12: after any sequence of enrichment runs of a contact, one after another
\* or overlapping, the store holds at most one result per (contact, source);
\* a run over a contact that has a result for every source leaves the contact
\* with the same set of (contact, source) keys.
Keys(store) == {<<e.contact, e.source>> : e \in store}

C12_OneResultPerSource ==
  /\ \A c \in CacheContacts, s \in Branches : Cardinality(Entries(osint, c, s)) <= 1
  /\ lastCache.op = "write" =>
        /\ Keys(lastCache.before) \subseteq Keys(osint)
        /\ ({lastCache.contact} \X Branches) \subseteq Keys(lastCache.before)
              => Keys(osint) = Keys(lastCache.before)

\* A run over a contact with a result for every source has written a result
\* over a stored one.
C12_RerunOverwrote ==
  /\ lastCache.op = "write"
  /\ ({lastCache.contact} \X Branches) \subseteq Keys(lastCache.before)
  /\ osint # lastCache.before

\* C13: a run replaces a stored (contact, source) entry only when its age,
\* now - fetchedAt, exceeds the staleness threshold; an entry no older than the
\* threshold keeps its payload and fetchedAt, and so does every entry of
\* another contact.
C13_StalenessGate ==
  lastCache.op = "write" =>
    \A e \in lastCache.before :
      e \notin osint =>
        /\ e.contact = lastCache.contact
        /\ lastCache.t - e.fetchedAt > OSINT_ENRICHMENT_DELAY_DAYS

\* A run fetched another payload for an entry exactly as old as the threshold,
\* and a payload for an entry older than it.
C13_FetchedForEntryAtThreshold ==
  /\ lastCache.op = "write"
  /\ \E e \in lastCache.before :
        /\ e.contact = lastCache.contact
        /\ lastCache.t - e.fetchedAt = OSINT_ENRICHMENT_DELAY_DAYS
        /\ lastCache.fetched[e.source] \notin {None, e.payload}
        /\ e \in osint
  /\ \E e \in lastCache.before : e \notin osint

\* C14: in every reachable state a contact has at most one enrichment run in
\* progress or retry scheduled: a trigger for a contact that has one starts no
\* second run.
ActiveEnrichments(c) ==
  Cardinality({e \in executing : e.contact = c}) +
  Cardinality({j \in jobs : j.contact = c})

C14_AtMostOneActivePerContact == \A c \in JobContacts : ActiveEnrichments(c) <= 1

\* C15: schedule with a trigger time at or before now fails with a validation
\* error and stores no reminder; with a trigger time after now it stores
\* exactly one reminder, pending, and returns its id.
RowAfter == reminders[lastRem.id]

C15_ScheduleValidates ==
  lastRem.op \in {"created", "validation_error"} =>
    IF lastRem.arg <= beat
    THEN /\ lastRem.op = "validation_error"
         /\ Len(reminders) = lastRem.n
    ELSE /\ lastRem.op = "created"
         /\ Len(reminders) = lastRem.n + 1
         /\ lastRem.id = Len(reminders)
         /\ RowAfter = [trigger_at |-> lastRem.arg, status |-> "pending"]

\* A reminder for this very moment has been refused.
C15_RejectedAtNow ==
  /\ lastRem.op = "validation_error"
  /\ lastRem.arg = beat
  /\ beat > 0

\* C16: the only status changes any operation makes are pending -> sent,
\* snoozed, completed, cancelled or failed, and snoozed -> pending; a reminder
\* that is sent, completed, cancelled or failed keeps its status.
AllowedChanges ==
  {<<"pending", x>> : x \in {"sent", "snoozed", "completed", "cancelled", "failed"}}
    \cup {<<"snoozed", "pending">>}

C17_CompleteTerminalCancelValid ==
  /\ (lastRem.op = "cancel" /\ lastRem.before.status \in NonTerminal)
       => RowAfter.status = "cancelled"
  /\ (lastRem.id \in RemIds /\ lastRem.before.status = "completed")
       => /\ RowAfter.status = "completed"
          /\ lastRem.op # "deliver"
  /\ lastRem.op = "select" => \A i \in lastRem.due : reminders[i].status # "completed"

\* C18: snooze with a time at or before now is rejected and leaves status and
\* trigger time as they were; with a later time the reminder triggers at the
\* new time and is pending, and it is delivered no earlier than the time it
\* triggers at.
C18_SnoozeFutureOnly ==
  /\ lastRem.op \in {"snooze", "snooze_rejected"} =>
       IF lastRem.arg <= beat
       THEN lastRem.op = "snooze_rejected" /\ RowAfter = lastRem.before
       ELSE /\ lastRem.op = "snooze"
            /\ lastRem.before.status \in NonTerminal
                 => RowAfter = [trigger_at |-> lastRem.arg, status |-> "pending"]
  /\ lastRem.op = "deliver" => lastRem.before.trigger_at <= beat

\* C19: a due reminder is handed to the delivery channel by one dispatcher
\* only: no reminder is delivered a second time.
C19_NoDoubleDelivery == lastRem.op = "deliver" => ~lastRem.again

DuePending(i) ==
  /\ i \in RemIds
  /\ reminders[i].status = "pending"
  /\ reminders[i].trigger_at <= beat

C21_EventuallySentOrFailed ==
  \A i \in 1..MaxReminders :
    [](DuePending(i) =>
         <>(\/ i \in RemIds /\ reminders[i].status # "pending"
            \/ lastRem.op = "snooze" /\ lastRem.id = i))

\* C22: a send that succeeds sets the reminder sent; a send that fails leaves
\* its mark on the reminder (the attempt is counted, or the status is failed)
\* and the retry is put off by the backoff delay: the reminder is not due
\* again at the moment the send failed.
C22_DeliverCountsAndBacksOff ==
  /\ (lastRem.op = "deliver" /\ lastRem.before.status = "pending")
       => RowAfter.status = "sent"
  /\ lastRem.op = "send_failed" =>
       /\ RowAfter # lastRem.before
       /\ lastRem.id \notin GetDueReminders(reminders, beat)

\* C29: a reminder that has been cancelled is not handed to the delivery
\* channel afterwards, whichever way cancel and dispatch interleave.
C29_CancelledNotDelivered ==
  lastRem.op = "deliver" => lastRem.before.status # "cancelled"

\* C25: every permanent failure is durable: when an enrichment has used up
\* its attempts a stored failure record of the contact exists, in that state
\* and in every later one; no retry chain ends with a log line only.
C25_PermanentFailureDurable ==
  lastJob.op = "exhausted" => lastJob.contact \in failures

\* C26: provider branches are independent and joined once: a branch that
\* returns or fails writes its own slot only, once, and leaves every other
\* branch as it was, still free to return; the results are put together only
\* when no branch is still running, and hold every result of every branch that
\* did not fail.
BranchStep(c) ==
  LET r == runs[c]
      q == runs'[c]
  IN /\ (r.pc = "gather" /\ q.pc = "gather") =>
          \A b \in Branches :
            q.branch[b] # r.branch[b] =>
              /\ r.branch[b] = Pending
              /\ \A x \in Branches \ {b} : q.branch[x] = r.branch[x]
     /\ (r.pc = "gather" /\ q.pc = "done") =>
          /\ \A b \in Branches : r.branch[b] # Pending /\ q.branch[b] = r.branch[b]
          /\ \A b \in Branches :
               ~Failed(r.branch[b]) =>
                 Range(BranchResults(b, r.branch[b])) \subseteq Range(q.results)
     /\ q.results # r.results => (q.pc = "done" \/ q = [NoRun EXCEPT !.pc = "gather"])

SiblingFree(c) ==
  \A b \in Branches :
    (runs[c].pc = "gather" /\ runs[c].branch[b] = Pending)
      => ENABLED ProviderReturn(c, b, [state |-> "ok", n |-> 1])

C26_BranchesIndependentJoinedOnce ==
  /\ [](\A c \in EnrichContacts : SiblingFree(c))
  /\ [][\A c \in EnrichContacts : BranchStep(c)]_vars

\* An enrichment has been joined whose content search failed before or after
\* its profile search returned results, and the results are the profile's.
C26_JoinedWithFailedSibling ==
  \E c \in EnrichContacts :
    /\ runs[c].pc = "done"
    /\ Failed(runs[c].branch["content"])
    /\ runs[c].branch["profile"].n = MaxResults
    /\ runs[c].results = BranchResults("profile", runs[c].branch["profile"])

\* C27: in every reachable state the number of provider calls in flight is at
\* most the configured ceiling.
RECURSIVE InFlight(_)
InFlight(n) == IF n = 0 THEN 0 ELSE services[n].calling + InFlight(n - 1)

C27_ConcurrencyCeiling == InFlight(Len(services)) <= RATE_LIMIT

\* C28: a bucket's tokens stay within 0..B, and the calls started within an
\* interval of t seconds are at most B + R*t, however many enrich operations
\* contend (here the interval from second 0 to now; B and R are the bucket's
\* rate).
C28_TokenBucketBound ==
  /\ \A s \in ServiceIds : services[s].tokens \in 0..BUCKET_RATE
  /\ started <= BUCKET_RATE + BUCKET_RATE * sec

\* C23: sliding-window admission: for a user and a class with threshold N,
\* allow admits iff fewer than N admitted operations of that user and class
\* have their timestamp in (now - W, now] (the first N in any window are
\* admitted, the next is denied, and once W has elapsed since the counted
\* admissions allow admits again); in every reachable state at most N admitted
\* operations have their timestamp in the window.
C23_SlidingWindowAdmission ==
  /\ \A k \in LimiterKeys : Cardinality(LiveOf(k)) <= limits[k[2]]
  /\ lastAllow.op = "allow" =>
       (lastAllow.allowed <=> lastAllow.seen < limits[lastAllow.class])

\* C24: limiter keys are independent: what allow(user, class) returns is
\* settled by the admissions of that user and class alone, whatever the other
\* class and the other users have done (a general operation with fewer than N1
\* general admissions in the window is admitted, a voice operation with N2 of
\* them is denied), and the call writes no history but that of its own key.
C24_KeysIndependent ==
  lastAllow.op = "allow" =>
    /\ lastAllow.touched \subseteq {<<lastAllow.user, lastAllow.class>>}
    /\ lastAllow.seen < limits[lastAllow.class] => lastAllow.allowed
    /\ lastAllow.seen >= limits[lastAllow.class] => ~lastAllow.allowed

\* C30: the sweep is transparent to admission: it removes the histories only
\* of users whose newest timestamp, in every class, is older than the
\* retention horizon, and never an admitted timestamp that is still inside the
\* window.
C30_SweepTransparent ==
  lastAllow.op = "sweep" => (lastAllow.recent = {} /\ lastAllow.lost = {})


\* C31: the capture path does not wait for background work: with every
\* enrichment and a reminder delivery outstanding and never returning, every
\* handler that has started comes to its end.
Running(slot) == \E c \in calls : c.slot = slot

Settled == {"sent", "failed", "completed", "cancelled"}

C32_RestartStrandsNothing ==
  \A i \in 1..MaxReminders :
    []((lastRem.op = "restart" /\ i \in lastRem.due) =>
         <>(/\ i \in RemIds
            /\ \/ reminders[i].status \in Settled
               \/ reminders[i].trigger_at > beat
               \/ lastRem.op = "select" /\ i \in lastRem.due))

\* A restart has ended a task that held a reminder it had not yet sent.
C32_LostInRestart ==
  /\ lastRem.op = "restart"
  /\ \E i \in lastRem.due : DuePending(i)

\* C33: a denied check records nothing: when is_allowed returns False the
\* user's list after the call is the list before it without the entries that
\* left the window, so no entry is added and the time of the next admission
\* is not moved.
C33_DeniedRecordsNothing ==
  [][\A k \in LimiterKeys :
       (lastAllow'.op = "allow" /\ ~lastAllow'.allowed
          /\ lastAllow'.user = k[1] /\ lastAllow'.class = k[2])
         => LET h == Get(HistoryOf(k[2], request_history, voice_history), k[1])
                h2 == Get(HistoryOf(k[2], request_history', voice_history'), k[1])
            IN /\ h2 = SelectSeq(h, LAMBDA x : x > ltime - RATE_LIMIT_WINDOW_SECONDS)
               /\ Range(h2) \subseteq Range(h)
               /\ ltime' = ltime]_vars

\* A check denied a second time in a row, the list still at the limit.
C33_DeniedAgain ==
  /\ lastAllow.op = "allow"
  /\ ~lastAllow.allowed
  /\ lastAllow.seen = limits[lastAllow.class]
  /\ Len(Get(HistoryOf(lastAllow.class, request_history, voice_history),
             lastAllow.user)) = limits[lastAllow.class]

\* C34: a duplicate lookup that is given no phone and no handle (the lookup has
\* no e-mail parameter) matches nothing: it returns no record at all.
C34_NoIdentifiersMatchNothing ==
  (query.op = "find_duplicates" /\ query.phone = None
     /\ query.telegram_username = None)
    => found = {}

\* C37: request() returns a value only for an OK response, and then the
\* parsed body; for every response that is not OK it throws an ApiError with
\* the response's status, whose message is body.detail, or 'Request failed'
\* when the body is not JSON or holds no (or an empty) detail.
ExpectedMessage(body) ==
  IF body.kind = "object" /\ Truthy(body.detail) THEN body.detail
  ELSE JsString("Request failed")

C37_ApiErrorContract ==
  api.op = "request" =>
    IF ResOk(api.res)
    THEN api.outcome.kind = "return" => api.outcome.value = api.res.body
    ELSE /\ api.outcome.kind = "throw"
         /\ api.outcome.error = "ApiError"
         /\ api.outcome.status = api.res.status
         /\ JsString(api.outcome.message) = ExpectedMessage(api.res.body)

\* C35: the contact details are rendered only when the share is already
\* purchased, is the viewer's own, or is public; and no purchase control, the
\* page's button or the Telegram main button, is offered for a share that is
\* already purchased or the viewer's own.
C35_ViewGating ==
  /\ "details" \in Render(page) =>
       \/ page.share.already_purchased
       \/ page.share.is_owner
       \/ page.share.visibility = "public"
  /\ (page.share.already_purchased \/ page.share.is_owner) =>
       /\ "web_button" \notin Render(page)
       /\ MainButton(page) = None

\* A share that is neither bought, owned nor public is on the page: the lock
\* is rendered and a purchase control is offered.
C35_LockedWithControl ==
  /\ page.share.visibility \in {"private", "paid"}
  /\ ~page.share.already_purchased /\ ~page.share.is_owner
  /\ "lock" \in Render(page)
  /\ ("web_button" \in Render(page) \/ MainButton(page) # None)

\* C36: the purchase is single-flight: no purchaseContact request is started
\* from the page, by its button or by the main-button callback, while one is
\* pending.
C36_PurchaseSingleFlight ==
  /\ net.pending["purchase"] <= 1
  /\ api.op = "purchaseContact" => api.pending = 0

\* C38: a load that succeeds leaves no error: after loadCatalog has succeeded
\* the error is not set and the error block is not rendered, and after
\* loadShare has succeeded the error is not set.
C38_SuccessfulReloadClearsError ==
  /\ (api.op = "loadCatalog" /\ api.ok) =>
       /\ catalog.error = None
       /\ "error" \notin RenderCatalog(catalog)
  /\ (api.op = "loadShare" /\ api.ok) => page.error = None

====
